---------------------------- MODULE Spec2Model ----------------------------
(* CHIP-8 core (chip8_core/src/lib.rs): the Emu state object and the      *)
(* operations new, load, keypress, reset, tick (fetch + execute) and      *)
(* tick_timers, as a state machine driven by the host's calls.            *)
EXTENDS Integers, Naturals, Sequences, FiniteSets, TLC

(* ---------------------------------------------------------------------- *)
(* Program constants                                                      *)
(* ---------------------------------------------------------------------- *)
FONTSET_SIZE == 80
SCREEN_WIDTH == 64
SCREEN_HEIGHT == 32
RAM_SIZE == 4096
NUM_REGS == 16
STACK_SIZE == 16
NUM_KEYS == 16
START_ADDR == 512

FONTSET ==
  << 240, 144, 144, 144, 240,
      32,  96,  32,  32, 112,
     240,  16, 240, 128, 240,
     240,  16, 240,  16, 240,
     144, 144, 240,  16,  16,
     240, 128, 240,  16, 240,
     240, 128, 240, 144, 240,
     240,  16,  32,  64,  64,
     240, 144, 240, 144, 240,
     240, 144, 240,  16, 240,
     240, 144, 240, 144, 144,
     224, 144, 224, 144, 224,
     240, 128, 128, 128, 240,
     224, 144, 144, 144, 224,
     240, 128, 240, 128, 240,
     240, 128, 240, 128, 128 >>

(* ---------------------------------------------------------------------- *)
(* Fixed-width integer helpers (u8 / u16 arithmetic and bit operations)   *)
(* ---------------------------------------------------------------------- *)
U8 == 256
U16 == 65536

Bit(v, k) == (v \div (2 ^ k)) % 2

BitAnd(a, b) ==
  LET f[k \in 0..16] ==
        IF k = 16 THEN 0 ELSE (Bit(a, k) * Bit(b, k)) * (2 ^ k) + f[k + 1]
  IN  f[0]

BitOr(a, b) ==
  LET f[k \in 0..16] ==
        IF k = 16 THEN 0
        ELSE (IF Bit(a, k) + Bit(b, k) > 0 THEN 1 ELSE 0) * (2 ^ k) + f[k + 1]
  IN  f[0]

BitXor(a, b) ==
  LET f[k \in 0..16] ==
        IF k = 16 THEN 0
        ELSE ((Bit(a, k) + Bit(b, k)) % 2) * (2 ^ k) + f[k + 1]
  IN  f[0]

(* ---------------------------------------------------------------------- *)
(* Outcomes of a call.  The core has no error type: a call either returns *)
(* or panics.  The panic kinds are the ones rustc/core produce here.      *)
(* ---------------------------------------------------------------------- *)
OK == "Ok"
PanicIndex == "PanicIndexOutOfBounds"
PanicOverflow == "PanicArithmeticOverflow"
PanicUnimplemented == "PanicUnimplemented"
Panics == {PanicIndex, PanicOverflow, PanicUnimplemented}

Ret(e) == [emu |-> e, outcome |-> OK]
Panic(e, kind) == [emu |-> e, outcome |-> kind]

(* ---------------------------------------------------------------------- *)
(* Emu::new                                                               *)
(* ---------------------------------------------------------------------- *)
new ==
  [ pc     |-> START_ADDR,
    ram    |-> [a \in 0..(RAM_SIZE - 1) |->
                  IF a < FONTSET_SIZE THEN FONTSET[a + 1] ELSE 0],
    screen |-> [c \in 0..(SCREEN_WIDTH * SCREEN_HEIGHT - 1) |-> FALSE],
    v_regs |-> [r \in 0..(NUM_REGS - 1) |-> 0],
    i_reg  |-> 0,
    sp     |-> 0,
    stack  |-> [s \in 0..(STACK_SIZE - 1) |-> 0],
    keys   |-> [k \in 0..(NUM_KEYS - 1) |-> FALSE],
    dt     |-> 0,
    st     |-> 0 ]

(* Emu::keypress: self.keys[idx] = pressed (indexing panics past the end) *)
keypress(e, idx, pressed) ==
  IF idx >= NUM_KEYS THEN Panic(e, PanicIndex)
  ELSE Ret([e EXCEPT !.keys[idx] = pressed])

(* load refusing an image that ends exactly at the end of ram *)
load_rejecting_full_image(e, data) ==
  LET start == START_ADDR
      end   == START_ADDR + Len(data)
      old   == e.ram
  IN  IF end >= RAM_SIZE THEN Panic(e, PanicIndex)
      ELSE Ret([e EXCEPT !.ram = [a \in 0..(RAM_SIZE - 1) |->
                                   IF a >= start /\ a < end
                                   THEN data[a - start + 1] ELSE old[a]]])

(* Emu::load: self.ram[start..end].copy_from_slice(data); the slice       *)
(* expression panics before anything is copied when end > RAM_SIZE.       *)
load(e, data) ==
  LET start == START_ADDR
      end   == START_ADDR + Len(data)
      old   == e.ram
  IN  IF end > RAM_SIZE THEN Panic(e, PanicIndex)
      ELSE Ret([e EXCEPT !.ram = [a \in 0..(RAM_SIZE - 1) |->
                                   IF a >= start /\ a < end
                                   THEN data[a - start + 1] ELSE old[a]]])

(* Emu::push: self.stack[self.sp] = val; self.sp += 1                     *)
push(e, val) ==
  IF e.sp >= STACK_SIZE THEN Panic(e, PanicIndex)
  ELSE Ret([e EXCEPT !.stack[e.sp] = val, !.sp = e.sp + 1])

(* Emu::pop: self.sp -= 1; self.stack[self.sp].  The u16 subtraction at   *)
(* sp = 0 panics when the build has overflow checks and wraps to 0xFFFF   *)
(* when it has none; the read at stack[0xFFFF] then panics.  The result   *)
(* carries the popped value in .val.                                      *)
pop(e, oc) ==
  IF e.sp = 0
  THEN IF oc THEN [emu |-> e, outcome |-> PanicOverflow, val |-> 0]
       ELSE [emu |-> [e EXCEPT !.sp = U16 - 1], outcome |-> PanicIndex, val |-> 0]
  ELSE LET sp1 == e.sp - 1
       IN  IF sp1 >= STACK_SIZE
           THEN [emu |-> [e EXCEPT !.sp = sp1], outcome |-> PanicIndex, val |-> 0]
           ELSE [emu |-> [e EXCEPT !.sp = sp1], outcome |-> OK, val |-> e.stack[sp1]]

(* Emu::reset leaving the keypad as it was *)
reset_keeping_keys(e) ==
  [e EXCEPT !.pc = START_ADDR,
            !.ram = [a \in 0..(RAM_SIZE - 1) |->
                       IF a < FONTSET_SIZE THEN FONTSET[a + 1] ELSE 0],
            !.screen = [c \in 0..(SCREEN_WIDTH * SCREEN_HEIGHT - 1) |-> FALSE],
            !.v_regs = [r \in 0..(NUM_REGS - 1) |-> 0],
            !.i_reg = 0,
            !.sp = 0,
            !.stack = [i \in 0..(STACK_SIZE - 1) |-> 0],
            !.dt = 0,
            !.st = 0]

(* Emu::reset: every field assigned in place, ram zeroed and then its     *)
(* first FONTSET_SIZE bytes copied from FONTSET                           *)
reset(e) ==
  [e EXCEPT !.pc = START_ADDR,
            !.ram = [a \in 0..(RAM_SIZE - 1) |->
                       IF a < FONTSET_SIZE THEN FONTSET[a + 1] ELSE 0],
            !.screen = [c \in 0..(SCREEN_WIDTH * SCREEN_HEIGHT - 1) |-> FALSE],
            !.v_regs = [r \in 0..(NUM_REGS - 1) |-> 0],
            !.i_reg = 0,
            !.sp = 0,
            !.stack = [i \in 0..(STACK_SIZE - 1) |-> 0],
            !.keys = [k \in 0..(NUM_KEYS - 1) |-> FALSE],
            !.dt = 0,
            !.st = 0]

(* fetch with the address wrapped into ram instead of checked *)
fetch_wrapping(e) ==
  [emu |-> [e EXCEPT !.pc = (e.pc + 2) % U16], outcome |-> OK,
   op |-> e.ram[e.pc % RAM_SIZE] * 256 + e.ram[(e.pc + 1) % RAM_SIZE]]

(* Emu::fetch: big-endian word at pc, pc + 1; pc += 2.  The result        *)
(* carries the instruction word in .op.                                   *)
fetch(e) ==
  IF e.pc >= RAM_SIZE THEN [emu |-> e, outcome |-> PanicIndex, op |-> 0]
  ELSE IF e.pc + 1 >= RAM_SIZE THEN [emu |-> e, outcome |-> PanicIndex, op |-> 0]
  ELSE [emu |-> [e EXCEPT !.pc = e.pc + 2], outcome |-> OK,
        op |-> e.ram[e.pc] * 256 + e.ram[e.pc + 1]]

(* tick_timers decrementing without the test for zero *)
tick_timers_wrapping(e) ==
  [e EXCEPT !.dt = (e.dt - 1) % U8, !.st = (e.st - 1) % U8]

(* Emu::tick_timers *)
tick_timers(e) ==
  LET e1 == IF e.dt > 0 THEN [e EXCEPT !.dt = e.dt - 1] ELSE e
  IN  IF e1.st > 0 THEN [e1 EXCEPT !.st = e1.st - 1] ELSE e1


(* ---------------------------------------------------------------------- *)
(* Emu::execute and its helpers                                           *)
(* ---------------------------------------------------------------------- *)

(* Skip arms: if cond { self.pc += 2 } *)
skip_if(e, cond) == Ret(IF cond THEN [e EXCEPT !.pc = e.pc + 2] ELSE e)

(* the inner loop of DXYN lighting the cell instead of toggling it *)
RECURSIVE draw_row_lighting(_, _, _, _, _, _, _)
draw_row_lighting(screen, pixels, x_coord, y_coord, y_line, x_line, flipped) ==
  IF x_line >= 8 THEN [screen |-> screen, flipped |-> flipped]
  ELSE IF BitAnd(pixels, 128 \div (2 ^ x_line)) # 0
       THEN LET x   == (x_coord + x_line) % SCREEN_WIDTH
                y   == (y_coord + y_line) % SCREEN_HEIGHT
                idx == x + SCREEN_WIDTH * y
            IN  draw_row_lighting([screen EXCEPT ![idx] = TRUE],
                                  pixels, x_coord, y_coord, y_line, x_line + 1,
                                  flipped \/ screen[idx])
       ELSE draw_row_lighting(screen, pixels, x_coord, y_coord, y_line,
                              x_line + 1, flipped)

(* DXYN, inner loop: for x_line in 0..8, toggle the cell of each set bit  *)
(* and accumulate flipped |= screen[idx] read at write time.              *)
RECURSIVE draw_row(_, _, _, _, _, _, _)
draw_row(screen, pixels, x_coord, y_coord, y_line, x_line, flipped) ==
  IF x_line >= 8 THEN [screen |-> screen, flipped |-> flipped]
  ELSE IF BitAnd(pixels, 128 \div (2 ^ x_line)) # 0
       THEN LET x   == (x_coord + x_line) % SCREEN_WIDTH
                y   == (y_coord + y_line) % SCREEN_HEIGHT
                idx == x + SCREEN_WIDTH * y
            IN  draw_row([screen EXCEPT ![idx] = (screen[idx] # TRUE)],
                         pixels, x_coord, y_coord, y_line, x_line + 1,
                         flipped \/ screen[idx])
       ELSE draw_row(screen, pixels, x_coord, y_coord, y_line, x_line + 1,
                     flipped)

(* DXYN setting v_regs[0xF] on a collision and never clearing it *)
RECURSIVE draw_rows_never_clearing_flag(_, _, _, _, _, _)
draw_rows_never_clearing_flag(e, x_coord, y_coord, num_rows, y_line, flipped) ==
  IF y_line >= num_rows
  THEN Ret(IF flipped THEN [e EXCEPT !.v_regs[15] = 1] ELSE e)
  ELSE LET addr == e.i_reg + y_line
       IN  IF addr >= RAM_SIZE THEN Panic(e, PanicIndex)
           ELSE LET r == draw_row(e.screen, e.ram[addr], x_coord, y_coord,
                                  y_line, 0, flipped)
                IN  draw_rows_never_clearing_flag(
                      [e EXCEPT !.screen = r.screen], x_coord, y_coord,
                      num_rows, y_line + 1, r.flipped)

(* DXYN, outer loop: for y_line in 0..num_rows, read ram[i_reg + y_line]  *)
(* (panics past the end of ram, keeping the rows already drawn).          *)
RECURSIVE draw_rows(_, _, _, _, _, _)
draw_rows(e, x_coord, y_coord, num_rows, y_line, flipped) ==
  IF y_line >= num_rows
  THEN Ret([e EXCEPT !.v_regs[15] = IF flipped THEN 1 ELSE 0])
  ELSE LET addr == e.i_reg + y_line
       IN  IF addr >= RAM_SIZE THEN Panic(e, PanicIndex)
           ELSE LET r == draw_row(e.screen, e.ram[addr], x_coord, y_coord,
                                  y_line, 0, flipped)
                IN  draw_rows([e EXCEPT !.screen = r.screen], x_coord, y_coord,
                              num_rows, y_line + 1, r.flipped)

(* DXYN taking the column from v_regs[digit3] and the row from v_regs[digit2] *)
draw_swapping_coords(e, digit2, digit3, digit4) ==
  draw_rows(e, e.v_regs[digit3], e.v_regs[digit2], digit4, 0, FALSE)

draw(e, digit2, digit3, digit4) ==
  draw_rows(e, e.v_regs[digit2], e.v_regs[digit3], digit4, 0, FALSE)

(* FX0A: first pressed key in index order, or rewind pc by 2 *)
RECURSIVE first_key(_, _)
first_key(keys, i) ==
  IF i >= NUM_KEYS THEN -1
  ELSE IF keys[i] THEN i ELSE first_key(keys, i + 1)

(* FX0A without the rewind of pc *)
wait_key_no_rewind(e, x) ==
  LET k == first_key(e.keys, 0)
  IN  IF k >= 0 THEN Ret([e EXCEPT !.v_regs[x] = k]) ELSE Ret(e)

wait_key(e, x) ==
  LET k == first_key(e.keys, 0)
  IN  IF k >= 0 THEN Ret([e EXCEPT !.v_regs[x] = k])
      ELSE Ret([e EXCEPT !.pc = e.pc - 2])

(* EX9E / EXA1: self.keys[vx as usize] panics when vx >= NUM_KEYS *)
skip_key(e, x, want) ==
  LET vx == e.v_regs[x]
  IN  IF vx >= NUM_KEYS THEN Panic(e, PanicIndex)
      ELSE skip_if(e, e.keys[vx] = want)

(* FX33 with the tens digit not reduced modulo 10 *)
bcd_tens_unreduced(e, x) ==
  LET vx       == e.v_regs[x]
      hundreds == vx \div 100
      tens     == vx \div 10
      ones     == vx % 10
      i        == e.i_reg
      e1       == [e  EXCEPT !.ram[i] = hundreds]
      e2       == [e1 EXCEPT !.ram[i + 1] = tens]
      e3       == [e2 EXCEPT !.ram[i + 2] = ones]
  IN  IF i >= RAM_SIZE THEN Panic(e, PanicIndex)
      ELSE IF i + 1 >= RAM_SIZE THEN Panic(e1, PanicIndex)
      ELSE IF i + 2 >= RAM_SIZE THEN Panic(e2, PanicIndex)
      ELSE Ret(e3)

(* FX33: the digits are computed in f32 and floored, which is exact for   *)
(* the integers 0..255; three stores in order, each bounds-checked on its *)
(* own                                                                    *)
bcd(e, x) ==
  LET vx       == e.v_regs[x]
      hundreds == vx \div 100
      tens     == (vx \div 10) % 10
      ones     == vx % 10
      i        == e.i_reg
      e1       == [e  EXCEPT !.ram[i] = hundreds]
      e2       == [e1 EXCEPT !.ram[i + 1] = tens]
      e3       == [e2 EXCEPT !.ram[i + 2] = ones]
  IN  IF i >= RAM_SIZE THEN Panic(e, PanicIndex)
      ELSE IF i + 1 >= RAM_SIZE THEN Panic(e1, PanicIndex)
      ELSE IF i + 2 >= RAM_SIZE THEN Panic(e2, PanicIndex)
      ELSE Ret(e3)

(* FX55: for idx in 0..=x { ram[i + idx] = v_regs[idx] } *)
RECURSIVE store_regs(_, _, _)
store_regs(e, x, idx) ==
  IF idx > x THEN Ret(e)
  ELSE IF e.i_reg + idx >= RAM_SIZE THEN Panic(e, PanicIndex)
  ELSE store_regs([e EXCEPT !.ram[e.i_reg + idx] = e.v_regs[idx]], x, idx + 1)

(* FX65: for idx in 0..=x { v_regs[idx] = ram[i + idx] } *)
RECURSIVE load_regs(_, _, _)
load_regs(e, x, idx) ==
  IF idx > x THEN Ret(e)
  ELSE IF e.i_reg + idx >= RAM_SIZE THEN Panic(e, PanicIndex)
  ELSE load_regs([e EXCEPT !.v_regs[idx] = e.ram[e.i_reg + idx]], x, idx + 1)

(* 00EE *)
ret_sub(e, oc) ==
  LET r == pop(e, oc)
  IN  IF r.outcome # OK THEN Panic(r.emu, r.outcome)
      ELSE Ret([r.emu EXCEPT !.pc = r.val])

(* 2NNN pushing the address of the call word itself *)
call_sub_pushes_call_address(e, nnn) ==
  LET r == push(e, e.pc - 2)
  IN  IF r.outcome # OK THEN r
      ELSE Ret([r.emu EXCEPT !.pc = nnn])

(* 2NNN *)
call_sub(e, nnn) ==
  LET r == push(e, e.pc)
  IN  IF r.outcome # OK THEN r
      ELSE Ret([r.emu EXCEPT !.pc = nnn])

(* the match with the last nibble never compared *)
Match_ignoring_digit4(op, p1, p2, p3, p4) ==
  /\ p1 = -1 \/ op \div 4096 = p1
  /\ p2 = -1 \/ (op \div 256) % 16 = p2
  /\ p3 = -1 \/ (op \div 16) % 16 = p3

(* One pattern of the match on (digit1, digit2, digit3, digit4); a        *)
(* wildcard _ is written -1.                                              *)
Match(op, p1, p2, p3, p4) ==
  /\ p1 = -1 \/ op \div 4096 = p1
  /\ p2 = -1 \/ (op \div 256) % 16 = p2
  /\ p3 = -1 \/ (op \div 16) % 16 = p3
  /\ p4 = -1 \/ op % 16 = p4

(* The arm of the match that takes op: the first pattern, in source       *)
(* order, that matches.                                                   *)
decode(op) ==
  CASE Match(op, 0, 0, 0, 0)      -> "0000"
    [] Match(op, 0, 0, 14, 0)     -> "00E0"
    [] Match(op, 0, 0, 14, 14)    -> "00EE"
    [] Match(op, 1, -1, -1, -1)   -> "1NNN"
    [] Match(op, 2, -1, -1, -1)   -> "2NNN"
    [] Match(op, 3, -1, -1, -1)   -> "3XNN"
    [] Match(op, 4, -1, -1, -1)   -> "4XNN"
    [] Match(op, 5, -1, -1, 0)    -> "5XY0"
    [] Match(op, 6, -1, -1, -1)   -> "6XNN"
    [] Match(op, 7, -1, -1, -1)   -> "7XNN"
    [] Match(op, 8, -1, -1, 0)    -> "8XY0"
    [] Match(op, 8, -1, -1, 1)    -> "8XY1"
    [] Match(op, 8, -1, -1, 2)    -> "8XY2"
    [] Match(op, 8, -1, -1, 3)    -> "8XY3"
    [] Match(op, 8, -1, -1, 4)    -> "8XY4"
    [] Match(op, 8, -1, -1, 5)    -> "8XY5"
    [] Match(op, 8, -1, -1, 6)    -> "8XY6"
    [] Match(op, 8, -1, -1, 7)    -> "8XY7"
    [] Match(op, 8, -1, -1, 14)   -> "8XYE"
    [] Match(op, 9, -1, -1, 0)    -> "9XY0"
    [] Match(op, 10, -1, -1, -1)  -> "ANNN"
    [] Match(op, 11, -1, -1, -1)  -> "BNNN"
    [] Match(op, 12, -1, -1, -1)  -> "CXNN"
    [] Match(op, 13, -1, -1, -1)  -> "DXYN"
    [] Match(op, 14, -1, 9, 14)   -> "EX9E"
    [] Match(op, 14, -1, 10, 1)   -> "EXA1"
    [] Match(op, 15, -1, 0, 7)    -> "FX07"
    [] Match(op, 15, -1, 0, 10)   -> "FX0A"
    [] Match(op, 15, -1, 1, 5)    -> "FX15"
    [] Match(op, 15, -1, 1, 8)    -> "FX18"
    [] Match(op, 15, -1, 1, 14)   -> "FX1E"
    [] Match(op, 15, -1, 2, 9)    -> "FX29"
    [] Match(op, 15, -1, 3, 3)    -> "FX33"
    [] Match(op, 15, -1, 5, 5)    -> "FX55"
    [] Match(op, 15, -1, 6, 5)    -> "FX65"
    [] OTHER                      -> "unimplemented"

(* 00E0 also zeroing the index register *)
clear_screen_and_index(e) ==
  Ret([e EXCEPT !.screen =
         [c \in 0..(SCREEN_WIDTH * SCREEN_HEIGHT - 1) |-> FALSE],
                !.i_reg = 0])

(* 00E0 *)
clear_screen(e) ==
  Ret([e EXCEPT !.screen =
         [c \in 0..(SCREEN_WIDTH * SCREEN_HEIGHT - 1) |-> FALSE]])

(* 7XNN: wrapping_add, no flag *)
add_imm(e, x, nn) == Ret([e EXCEPT !.v_regs[x] = (e.v_regs[x] + nn) % U8])

(* 8XY4 storing the flag first and the sum last *)
add_regs_flag_first(e, x, y) ==
  LET sum == e.v_regs[x] + e.v_regs[y]
  IN  Ret([e EXCEPT !.v_regs[15] = IF sum >= U8 THEN 1 ELSE 0,
                    !.v_regs[x] = sum % U8])

(* 8XY4: overflowing_add; v_regs[x] is stored first, then v_regs[0xF] *)
add_regs(e, x, y) ==
  LET sum == e.v_regs[x] + e.v_regs[y]
  IN  Ret([e EXCEPT !.v_regs[x] = sum % U8,
                    !.v_regs[15] = IF sum >= U8 THEN 1 ELSE 0])

(* 8XY5 with the flag set to 1 when a borrow occurred *)
sub_regs_borrow_flag(e, x, y) ==
  LET vx == e.v_regs[x]
      vy == e.v_regs[y]
  IN  Ret([e EXCEPT !.v_regs[x] = (vx - vy) % U8,
                    !.v_regs[15] = IF vx < vy THEN 1 ELSE 0])

(* 8XY5: overflowing_sub of v_regs[x] - v_regs[y] *)
sub_regs(e, x, y) ==
  LET vx == e.v_regs[x]
      vy == e.v_regs[y]
  IN  Ret([e EXCEPT !.v_regs[x] = (vx - vy) % U8,
                    !.v_regs[15] = IF vx < vy THEN 0 ELSE 1])

(* 8XY7: overflowing_sub of v_regs[y] - v_regs[x] *)
subn_regs(e, x, y) ==
  LET vx == e.v_regs[x]
      vy == e.v_regs[y]
  IN  Ret([e EXCEPT !.v_regs[x] = (vy - vx) % U8,
                    !.v_regs[15] = IF vy < vx THEN 0 ELSE 1])

(* 8XY6 taking the flag bit after the shift *)
shr_reg_flag_after_shift(e, x) ==
  LET vx == e.v_regs[x]
  IN  Ret([e EXCEPT !.v_regs[x] = vx \div 2, !.v_regs[15] = (vx \div 2) % 2])

(* 8XY6: lsb taken, v_regs[x] >>= 1, then v_regs[0xF] = lsb *)
shr_reg(e, x) ==
  LET vx == e.v_regs[x]
  IN  Ret([e EXCEPT !.v_regs[x] = vx \div 2, !.v_regs[15] = vx % 2])

(* 8XYE: msb taken, v_regs[x] <<= 1, then v_regs[0xF] = msb *)
shl_reg(e, x) ==
  LET vx == e.v_regs[x]
  IN  Ret([e EXCEPT !.v_regs[x] = (vx * 2) % U8,
                    !.v_regs[15] = (vx \div 128) % 2])

(* FX15 / FX18 *)
set_delay(e, x) == Ret([e EXCEPT !.dt = e.v_regs[x]])
set_sound(e, x) == Ret([e EXCEPT !.st = e.v_regs[x]])

(* Emu::execute: the body of the arm decode selects.  rng is the byte     *)
(* rand::random() returns, oc whether the build checks integer overflow.  *)
execute(e, op, rng, oc) ==
  LET arm    == decode(op)
      digit2 == (op \div 256) % 16
      digit3 == (op \div 16) % 16
      digit4 == op % 16
      nnn    == op % 4096
      nn     == op % 256
      x      == digit2
      y      == digit3
      vx     == e.v_regs[x]
      vy     == e.v_regs[y]
  IN  CASE arm = "0000" -> Ret(e)
        [] arm = "00E0" -> clear_screen(e)
        [] arm = "00EE" -> ret_sub(e, oc)
        [] arm = "1NNN" -> Ret([e EXCEPT !.pc = nnn])
        [] arm = "2NNN" -> call_sub(e, nnn)
        [] arm = "3XNN" -> skip_if(e, vx = nn)
        [] arm = "4XNN" -> skip_if(e, vx # nn)
        [] arm = "5XY0" -> skip_if(e, vx = vy)
        [] arm = "6XNN" -> Ret([e EXCEPT !.v_regs[x] = nn])
        [] arm = "7XNN" -> add_imm(e, x, nn)
        [] arm = "8XY0" -> Ret([e EXCEPT !.v_regs[x] = vy])
        [] arm = "8XY1" -> Ret([e EXCEPT !.v_regs[x] = BitOr(vx, vy)])
        [] arm = "8XY2" -> Ret([e EXCEPT !.v_regs[x] = BitAnd(vx, vy)])
        [] arm = "8XY3" -> Ret([e EXCEPT !.v_regs[x] = BitXor(vx, vy)])
        [] arm = "8XY4" -> add_regs(e, x, y)
        [] arm = "8XY5" -> sub_regs(e, x, y)
        [] arm = "8XY6" -> shr_reg(e, x)
        [] arm = "8XY7" -> subn_regs(e, x, y)
        [] arm = "8XYE" -> shl_reg(e, x)
        [] arm = "9XY0" -> skip_if(e, vx # vy)
        [] arm = "ANNN" -> Ret([e EXCEPT !.i_reg = nnn])
        [] arm = "BNNN" -> Ret([e EXCEPT !.pc = e.v_regs[0] + nnn])
        [] arm = "CXNN" -> Ret([e EXCEPT !.v_regs[x] = BitAnd(rng, nn)])
        [] arm = "DXYN" -> draw(e, digit2, digit3, digit4)
        [] arm = "EX9E" -> skip_key(e, x, TRUE)
        [] arm = "EXA1" -> skip_key(e, x, FALSE)
        [] arm = "FX07" -> Ret([e EXCEPT !.v_regs[x] = e.dt])
        [] arm = "FX0A" -> wait_key(e, x)
        [] arm = "FX15" -> set_delay(e, x)
        [] arm = "FX18" -> set_sound(e, x)
        [] arm = "FX1E" -> Ret([e EXCEPT !.i_reg = (e.i_reg + vx) % U16])
        [] arm = "FX29" -> Ret([e EXCEPT !.i_reg = vx * 5])
        [] arm = "FX33" -> bcd(e, x)
        [] arm = "FX55" -> store_regs(e, x, 0)
        [] arm = "FX65" -> load_regs(e, x, 0)
        [] OTHER -> Panic(e, PanicUnimplemented)

(* tick that also counts the timers down after each instruction *)
tick_counting_timers(e, rng, oc) ==
  LET f == fetch(e)
  IN  IF f.outcome # OK THEN [emu |-> f.emu, outcome |-> f.outcome, op |-> -1]
      ELSE LET r == execute(f.emu, f.op, rng, oc)
           IN  [emu |-> IF r.outcome = OK THEN tick_timers(r.emu) ELSE r.emu,
                outcome |-> r.outcome, op |-> f.op]

(* Emu::tick: fetch, then execute.  The result carries the fetched word   *)
(* in .op (-1 when the fetch itself failed).                              *)
tick(e, rng, oc) ==
  LET f == fetch(e)
  IN  IF f.outcome # OK THEN [emu |-> f.emu, outcome |-> f.outcome, op |-> -1]
      ELSE LET r == execute(f.emu, f.op, rng, oc)
           IN  [emu |-> r.emu, outcome |-> r.outcome, op |-> f.op]

(* ---------------------------------------------------------------------- *)
(* Inputs of the host: program images, key indices, random bytes          *)
(* ---------------------------------------------------------------------- *)

(* big-endian bytes of a sequence of instruction words *)
Bytes(words) ==
  [j \in 1..(2 * Len(words)) |->
     IF j % 2 = 1 THEN words[(j + 1) \div 2] \div 256
     ELSE words[j \div 2] % 256]

(* STACK_SIZE + 1 nested subroutines; level l sits at START_ADDR + 6 l:   *)
(*   E09E  skip the call when key[V0] is pressed                          *)
(*   2nnn  call level l + 1                                               *)
(*   00EE  return                                                         *)
NestLevels == STACK_SIZE + 1
LevelAddr(l) == START_ADDR + 6 * l
ProgCall ==
  Bytes([j \in 1..(3 * NestLevels) |->
           CASE (j - 1) % 3 = 0 -> 57502
             [] (j - 1) % 3 = 1 -> 8192 + LevelAddr(((j - 1) \div 3) + 1)
             [] OTHER -> 238])

(* F30A ; 1200 : wait for a key into V3, again *)
ProgKey == Bytes(<<62218, 4608>>)

(* 6002 F015 6101 F118 F207 1208 : set both timers, then poll the delay   *)
ProgTimer == Bytes(<<24578, 61461, 24833, 61720, 61959, 4616>>)

(* 5001 : an instruction word no arm of execute matches *)
ProgBad == Bytes(<<20481>>)

(* one byte more than fits between START_ADDR and the end of ram *)
ProgTooBig == [j \in 1..(RAM_SIZE - START_ADDR + 1) |-> 0]

(* fills ram up to its last byte with 1200 (jump to START_ADDR) *)
ProgFull == [j \in 1..(RAM_SIZE - START_ADDR) |-> IF j % 2 = 1 THEN 18 ELSE 0]

(* F055 1202 : store V0 at index_register = 0, then idle *)
ProgStore == Bytes(<<61525, 4610>>)

(* E09E 1FFF 6002 E09E 1FFC 60FF BFFF : jump to the last byte of ram,     *)
(* run off the end of ram, or jump past it, as keys 0 and 2 decide        *)
ProgJump == Bytes(<<57502, 8191, 24578, 57502, 8188, 24831, 49151>>)

(* A000 D005 D005 D005 A005 D005 D005 120E : glyph 0 at (0,0) three      *)
(* times, then glyph 1 twice on top of it, then idle                      *)
ProgDraw == Bytes(<<40960, 53253, 53253, 53253, 40965, 53253, 53253, 4622>>)

(* A000 DF05 DF05 DF05 1208 : the same with x = 0xF, the flag register *)
ProgDrawF == Bytes(<<40960, 57093, 57093, 57093, 4616>>)

(* 6007 A005 D005 00E0 1208 : glyph 1 drawn at (7, 7), then the display   *)
(* cleared                                                                *)
ProgClear == Bytes(<<24583, 40965, 53253, 224, 4616>>)

(* 3001 4000 9010 6105 5010 8010 8011 8012 8013 8014 8015 8016 8017 801E  *)
(* C2FF F11E F029 E0A1 F165 1226 : the remaining instructions in a        *)
(* straight line                                                          *)
ProgMisc ==
  Bytes(<<12289, 16384, 36880, 24837, 20496, 32784, 32785, 32786, 32787, 32788,
          32789, 32790, 32791, 32798, 49919, 61726, 61481, 57505, 61797, 4646>>)

ProgNames == {"call", "key", "timer", "bad", "toobig", "full", "store",
              "jump", "draw", "drawf", "clear", "misc"}

Program(name) ==
  CASE name = "call"   -> ProgCall
    [] name = "key"    -> ProgKey
    [] name = "timer"  -> ProgTimer
    [] name = "bad"    -> ProgBad
    [] name = "toobig" -> ProgTooBig
    [] name = "full"   -> ProgFull
    [] name = "store"  -> ProgStore
    [] name = "jump"   -> ProgJump
    [] name = "draw"   -> ProgDraw
    [] name = "drawf"  -> ProgDrawF
    [] name = "clear"  -> ProgClear
    [] name = "misc"   -> ProgMisc

KeyIdx == {0, 2}
RandBytes == {0, 90, 255}

(* ---------------------------------------------------------------------- *)
(* State                                                                  *)
(* ---------------------------------------------------------------------- *)
VARIABLES
  pc, ram, screen, v_regs, i_reg, sp, stack, keys, dt, st,  \* struct Emu
  outcome,    \* how the last call ended: OK or the panic that ended it
  last,       \* the last call: its name, argument, fetched word
  callsites,  \* addresses of the 2nnn words executed and not yet returned
  draws,      \* the latest (at most two) consecutive DXYN executions
  timerRun,   \* the run of consecutive tick_timers calls: its length and
              \* the two timers when it started
  nloads      \* number of load calls since new() / reset()

emuVars == <<pc, ram, screen, v_regs, i_reg, sp, stack, keys, dt, st>>
vars == <<pc, ram, screen, v_regs, i_reg, sp, stack, keys, dt, st,
          outcome, last, callsites, draws, timerRun, nloads>>

Emu ==
  [ pc |-> pc, ram |-> ram, screen |-> screen, v_regs |-> v_regs,
    i_reg |-> i_reg, sp |-> sp, stack |-> stack, keys |-> keys,
    dt |-> dt, st |-> st ]

SetEmu(e) ==
  /\ pc' = e.pc /\ ram' = e.ram /\ screen' = e.screen /\ v_regs' = e.v_regs
  /\ i_reg' = e.i_reg /\ sp' = e.sp /\ stack' = e.stack /\ keys' = e.keys
  /\ dt' = e.dt /\ st' = e.st

Call(name, prog, op, pc0) ==
  [call |-> name, prog |-> prog, op |-> op, pc0 |-> pc0]

IsDraw(op) == op \div 4096 = 13
IsCall(op) == op \div 4096 = 2
IsRet(op) == op = 238

(* the n sprite bytes a DXYN at index register i reads *)
Sprite(e, n) == [r \in 1..n |-> e.ram[e.i_reg + r - 1]]

IsWaitKey(op) == decode(op) = "FX0A"
IsSetDelay(op) == decode(op) = "FX15"
IsSetSound(op) == decode(op) = "FX18"

NoRun(e) == [n |-> 0, dt0 |-> e.dt, st0 |-> e.st]

Init ==
  /\ pc = new.pc /\ ram = new.ram /\ screen = new.screen
  /\ v_regs = new.v_regs /\ i_reg = new.i_reg /\ sp = new.sp
  /\ stack = new.stack /\ keys = new.keys /\ dt = new.dt /\ st = new.st
  /\ outcome = OK
  /\ last = Call("new", "", -1, START_ADDR)
  /\ callsites = <<>>
  /\ draws = <<>>
  /\ timerRun = NoRun(new)
  /\ nloads = 0

(* Bounds of the exploration *)
MaxLoads == 2
MaxTimerTicks == 3

(* A panic ends the host process: no call follows it. *)
Running == outcome = OK

(* The host's control flow: load(image) once after new() or reset(), then *)
(* the loop of tick(), tick_timers() and keypress() calls.                *)
HostMayLoad == nloads = 0
HostInLoop == nloads > 0

(* host -> load(image) *)
DoLoad(name, data) ==
  /\ \E r \in {load(Emu, data)} :
         /\ SetEmu(r.emu)
         /\ outcome' = r.outcome
         /\ timerRun' = NoRun(r.emu)
  /\ last' = Call("load", name, -1, pc)
  /\ draws' = <<>>
  /\ nloads' = nloads + 1
  /\ UNCHANGED callsites

Load(name) ==
  /\ Running
  /\ HostMayLoad
  /\ DoLoad(name, Program(name))

(* host -> tick() *)
Tick(rng, oc) ==
  /\ Running
  /\ HostInLoop
  /\ \E r \in {tick(Emu, rng, oc)} :
     LET ok == r.outcome = OK
     IN  /\ SetEmu(r.emu)
         /\ outcome' = r.outcome
         /\ timerRun' = NoRun(r.emu)
         /\ last' = Call("tick", "", r.op, pc)
         /\ callsites' =
              IF ok /\ IsCall(r.op) THEN Append(callsites, pc)
              ELSE IF ok /\ IsRet(r.op) /\ callsites # <<>>
                   THEN SubSeq(callsites, 1, Len(callsites) - 1)
                   ELSE callsites
         /\ draws' =
              IF ok /\ IsDraw(r.op)
              THEN LET d == [op     |-> r.op,
                             vx     |-> v_regs[(r.op \div 256) % 16],
                             vy     |-> v_regs[(r.op \div 16) % 16],
                             i_reg  |-> i_reg,
                             sprite |-> Sprite(Emu, r.op % 16),
                             before |-> screen,
                             vf     |-> r.emu.v_regs[15]]
                   IN  IF draws = <<>> THEN <<d>>
                       ELSE <<draws[Len(draws)], d>>
              ELSE <<>>
  /\ UNCHANGED nloads

(* host -> tick_timers() *)
TickTimers ==
  /\ Running
  /\ HostInLoop
  /\ timerRun.n < MaxTimerTicks
  /\ \E e \in {tick_timers(Emu)} : SetEmu(e)
  /\ outcome' = OK
  /\ timerRun' = [timerRun EXCEPT !.n = @ + 1]
  /\ last' = Call("tick_timers", "", -1, pc)
  /\ draws' = <<>>
  /\ UNCHANGED <<callsites, nloads>>

(* host -> keypress(idx, pressed) *)
Keypress(idx, pressed) ==
  /\ Running
  /\ HostInLoop
  /\ \E r \in {keypress(Emu, idx, pressed)} :
         /\ SetEmu(r.emu)
         /\ outcome' = r.outcome
         /\ timerRun' = NoRun(r.emu)
  /\ last' = Call("keypress", "", -1, pc)
  /\ draws' = <<>>
  /\ UNCHANGED <<callsites, nloads>>

(* host -> reset() *)
Reset ==
  /\ Running
  /\ \E r \in {reset(Emu)} : SetEmu(r)
  /\ outcome' = OK
  /\ timerRun' = NoRun(new)
  /\ last' = Call("reset", "", -1, pc)
  /\ callsites' = <<>>
  /\ draws' = <<>>
  /\ nloads' = 0

(* the word the next tick fetches, -1 when the fetch is out of bounds *)
NextOp == LET f == fetch(Emu) IN IF f.outcome = OK THEN f.op ELSE -1

Next ==
  \/ \E name \in ProgNames : Load(name)
  \/ \E rng \in (IF NextOp \div 4096 = 12 THEN RandBytes ELSE {0}),
        oc \in (IF sp = 0 THEN BOOLEAN ELSE {TRUE}) : Tick(rng, oc)
  \/ TickTimers
  \/ \E idx \in KeyIdx, pressed \in BOOLEAN : Keypress(idx, pressed)
  \/ Reset

Spec == Init /\ [][Next]_vars

(* ---------------------------------------------------------------------- *)
(* A host that loads images one over the other (at most MaxLoads between  *)
(* two resets), presses and releases keys, and never ticks.               *)
(* ---------------------------------------------------------------------- *)
LoadAgain(name) ==
  /\ Running
  /\ nloads > 0
  /\ nloads < MaxLoads
  /\ DoLoad(name, Program(name))

NextLoad ==
  \/ \E name \in ProgNames : Load(name)
  \/ \E name \in ProgNames : LoadAgain(name)
  \/ \E idx \in KeyIdx, pressed \in BOOLEAN : Keypress(idx, pressed)
  \/ Reset

SpecLoad == Init /\ [][NextLoad]_vars

(* ---------------------------------------------------------------------- *)
(* Decoding: a host that loads a one-word image, for every word the       *)
(* instruction table of the specification leaves undefined (register      *)
(* field x in DecodeX), and ticks.                                        *)
(* ---------------------------------------------------------------------- *)

(* the instruction table: the words that have a defined effect *)
Defined(op) ==
  LET d1 == op \div 4096
      d4 == op % 16
      nn == op % 256
  IN  \/ op \in {0, 224, 238}
      \/ d1 \in {1, 2, 3, 4, 6, 7, 10, 11, 12, 13}
      \/ d1 \in {5, 9} /\ d4 = 0
      \/ d1 = 8 /\ d4 \in {0, 1, 2, 3, 4, 5, 6, 7, 14}
      \/ d1 = 14 /\ nn \in {158, 161}
      \/ d1 = 15 /\ nn \in {7, 10, 21, 24, 30, 41, 51, 85, 101}

DecodeX == {0, 7}
UndefinedWords ==
  {w \in 0..(U16 - 1) : (w \div 256) % 16 \in DecodeX /\ ~Defined(w)}

LoadWord(w) ==
  /\ Running
  /\ HostMayLoad
  /\ DoLoad("word", Bytes(<<w>>))

NextDecode ==
  \/ \E w \in UndefinedWords : LoadWord(w)
  \/ \E rng \in {0}, oc \in BOOLEAN : Tick(rng, oc)

SpecDecode == Init /\ [][NextDecode]_vars

(* ---------------------------------------------------------------------- *)
(* Instruction semantics: a host that loads one image of a family of      *)
(* short programs, parameterised by registers and operand bytes, and      *)
(* ticks through it.                                                      *)
(* ---------------------------------------------------------------------- *)
OpRegs == {7, 15}
OpBytes == {0, 1, 128, 255}
DrawXs == {0, 60, 63, 255}
DrawYs == {0, 30, 31, 255}
DrawRows == {0, 1, 5, 15}
BcdAddrs == {768, RAM_SIZE - 3}

(* 6xaa 6ybb OP 1206, OP one of 8xy4 8xy5 8xy6 8xy7 8xyE 7xbb *)
AluOps(x, y, b) ==
  { 32768 + 256 * x + 16 * y + k : k \in {4, 5, 6, 7, 14} }
    \cup { 28672 + 256 * x + b }

AluImages ==
  UNION { { Bytes(<<24576 + 256 * xyab[1] + xyab[3],
                    24576 + 256 * xyab[2] + xyab[4], op, 4614>>) :
              op \in AluOps(xyab[1], xyab[2], xyab[4]) } :
          xyab \in OpRegs \X OpRegs \X OpBytes \X OpBytes }

(* 60vv Annn F033 1206 *)
BcdImages ==
  { Bytes(<<24576 + v, 40960 + i, 61491, 4614>>) :
      <<v, i>> \in (0..(U8 - 1)) \X BcdAddrs }

(* 60aa 61bb A000 D01n 7001 D01n 120C : the glyph bytes from address 0 drawn   *)
(* at (aa, bb), then once more one column to the right                    *)
DrawImages ==
  { Bytes(<<24576 + abn[1], 24832 + abn[2], 40960, 53264 + abn[3],
            28673, 53264 + abn[3], 4620>>) :
      abn \in DrawXs \X DrawYs \X DrawRows }

(* programs whose last instruction runs over the end of memory from      *)
(* index register 0xFFE: 60EA AFFE F033 / 60EA AFFE F255 / 60EA AFFE F265 *)
(* / 60FF AFFE F055 D005                                                  *)
OobImages ==
  { Bytes(<<24810, 45054, 61491>>), Bytes(<<24810, 45054, 62037>>),
    Bytes(<<24810, 45054, 62053>>), Bytes(<<24831, 45054, 61525, 53253>>) }

OpsImages ==
  AluImages \cup BcdImages \cup DrawImages \cup OobImages
    \cup {ProgDraw, ProgDrawF}

LoadImage(data) ==
  /\ Running
  /\ HostMayLoad
  /\ DoLoad("image", data)

NextOps ==
  \/ \E data \in OpsImages : LoadImage(data)
  \/ \E rng \in {0}, oc \in BOOLEAN : Tick(rng, oc)

SpecOps == Init /\ [][NextOps]_vars

(* ---------------------------------------------------------------------- *)
(* Properties                                                             *)
(* ---------------------------------------------------------------------- *)
TickStep == last'.call = "tick"
RegX(op) == (op \div 256) % 16
Pressed == {k \in 0..(NUM_KEYS - 1) : keys[k]}
Lowest(S) == CHOOSE i \in S : \A j \in S : i <= j
Max0(n) == IF n > 0 THEN n ELSE 0

(* C1: a tick that executes 2nnn leaves stack_pointer one higher, and a   *)
(* tick that executes 00EE sets program_counter to the address of the     *)
(* matching call plus 2 and leaves stack_pointer one lower, so that after *)
(* k calls and k returns stack_pointer is 0 again.                        *)
C1_RoundTrip ==
  [][ (TickStep /\ outcome' = OK) =>
        /\ IsCall(last'.op) =>
             /\ sp' = Len(callsites) + 1
             /\ sp' <= STACK_SIZE
        /\ IsRet(last'.op) =>
             /\ callsites # <<>>
             /\ pc' = callsites[Len(callsites)] + 2
             /\ sp' = Len(callsites) - 1 ]_vars

(* the last of 16 returns after 16 nested calls: the stack's top slot     *)
(* still holds the return address of the 16th call                        *)
C1_Witness ==
  /\ last.call = "tick" /\ IsRet(last.op) /\ outcome = OK
  /\ sp = 0 /\ callsites = <<>>
  /\ stack[STACK_SIZE - 1] = LevelAddr(STACK_SIZE - 1) + 4
  /\ pc = LevelAddr(0) + 4

(* C2: a tick that executes 2nnn with stack_pointer = 16, or 00EE with    *)
(* stack_pointer = 0, ends in a failure and leaves stack and              *)
(* stack_pointer as they were.                                            *)
C2_StackFaultsLeaveStack ==
  [][ ( /\ TickStep
        /\ \/ decode(last'.op) = "2NNN" /\ sp = STACK_SIZE
           \/ decode(last'.op) = "00EE" /\ sp = 0 ) =>
      (outcome' \in Panics /\ stack' = stack /\ sp' = sp) ]_vars

(* C3: a tick that executes Fx0A with no key pressed leaves               *)
(* program_counter and the registers as they were, so the next tick       *)
(* fetches the same word; with a key pressed it leaves program_counter    *)
(* advanced by 2 and reg[x] = the lowest pressed key index.               *)
C3_KeyWait ==
  [][ (TickStep /\ last'.op >= 0 /\ IsWaitKey(last'.op)) =>
        /\ outcome' = OK
        /\ IF Pressed = {}
           THEN /\ pc' = pc
                /\ v_regs' = v_regs
                /\ NextOp' = last'.op
           ELSE /\ pc' = pc + 2
                /\ v_regs' = [v_regs EXCEPT ![RegX(last'.op)] = Lowest(Pressed)]
      ]_vars

C3_Witness ==
  /\ last.call = "tick" /\ last.op >= 0 /\ IsWaitKey(last.op) /\ outcome = OK
  /\ Pressed = {}
  /\ pc = last.pc0
  /\ NextOp = last.op

(* C4 as stated: no tick changes delay_timer or sound_timer. *)
C4_TickNeverChangesTimers ==
  [][ TickStep => (dt' = dt /\ st' = st) ]_vars

(* C4 amended: a tick changes delay_timer only by executing Fx15, which   *)
(* sets it to reg[x], and sound_timer only by executing Fx18, which sets  *)
(* it to reg[x]; no tick counts a timer down.                             *)
C4_TickSetsTimersOnlyByFx15Fx18 ==
  [][ TickStep =>
        /\ dt' = IF outcome' = OK /\ last'.op >= 0 /\ IsSetDelay(last'.op)
                 THEN v_regs[RegX(last'.op)] ELSE dt
        /\ st' = IF outcome' = OK /\ last'.op >= 0 /\ IsSetSound(last'.op)
                 THEN v_regs[RegX(last'.op)] ELSE st ]_vars

(* a tick that set no timer, executed while both timers were running *)
C4_Witness ==
  /\ last.call = "tick" /\ last.op >= 0 /\ outcome = OK
  /\ ~IsSetDelay(last.op) /\ ~IsSetSound(last.op)
  /\ dt = 2 /\ st = 1

(* C5: tick_timers lowers each timer by 1 when it is above 0 and leaves   *)
(* it at 0 otherwise; after n calls in a row a timer that held t holds    *)
(* max(0, t - n); nothing but the two timers changes.                     *)
C5_TimersCountDown ==
  [][ (last'.call = "tick_timers") =>
        /\ outcome' = OK
        /\ dt' = Max0(dt - 1)
        /\ st' = Max0(st - 1)
        /\ dt' = Max0(timerRun'.dt0 - timerRun'.n)
        /\ st' = Max0(timerRun'.st0 - timerRun'.n)
        /\ UNCHANGED <<pc, ram, screen, v_regs, i_reg, sp, stack, keys>>
      ]_vars

(* three calls in a row on a delay timer that held 2 *)
C5_Witness ==
  /\ last.call = "tick_timers"
  /\ timerRun.n = 3 /\ timerRun.dt0 = 2 /\ timerRun.st0 = 1
  /\ dt = 0 /\ st = 0

(* C6: a tick that fetches a word outside the instruction table ends in  *)
(* the decode failure and executes nothing: only program_counter, which   *)
(* the fetch advanced, differs.                                           *)
C6_UnknownOpcode ==
  [][ (TickStep /\ last'.op >= 0 /\ ~Defined(last'.op)) =>
        /\ outcome' = PanicUnimplemented
        /\ pc' = pc + 2
        /\ UNCHANGED <<ram, screen, v_regs, i_reg, sp, stack, keys, dt, st>>
      ]_vars

(* 07E0: the clear-screen word but for its x nibble *)
C6_Witness ==
  /\ last.call = "tick" /\ last.op = 2016
  /\ outcome = PanicUnimplemented
  /\ pc = START_ADDR + 2

(* C7: load(bytes) with 0x200 + len(bytes) <= 4096 writes bytes at        *)
(* memory[0x200 .. 0x200+len) and changes nothing else; with              *)
(* 0x200 + len(bytes) > 4096 it fails and changes nothing.                *)
C7_Load ==
  [][ (last'.call = "load") =>
        LET data == Program(last'.prog)
            n    == Len(data)
        IN  IF START_ADDR + n <= RAM_SIZE
            THEN /\ outcome' = OK
                 /\ \A a \in 0..(RAM_SIZE - 1) :
                      ram'[a] = IF a >= START_ADDR /\ a < START_ADDR + n
                                THEN data[a - START_ADDR + 1] ELSE ram[a]
                 /\ UNCHANGED <<pc, screen, v_regs, i_reg, sp, stack, keys,
                                dt, st>>
            ELSE /\ outcome' \in Panics
                 /\ UNCHANGED emuVars ]_vars

(* the oversized image refused after the image that fills ram to its last *)
(* byte was loaded: that image is still in place                          *)
C7_Witness ==
  /\ last.call = "load" /\ last.prog = "toobig"
  /\ outcome \in Panics
  /\ nloads = 2
  /\ \A a \in START_ADDR..(RAM_SIZE - 1) : ram[a] = ProgFull[a - START_ADDR + 1]

(* C8: memory[0..80) always holds the built-in glyph table. *)
C8_GlyphTablePreserved ==
  \A a \in 0..(FONTSET_SIZE - 1) : ram[a] = FONTSET[a + 1]

(* C9: a tick whose fetch would read at or past the end of memory fails   *)
(* with an out-of-bounds failure, leaves program_counter where it was and *)
(* executes nothing.                                                      *)
C9_FetchBounds ==
  [][ (TickStep /\ (pc >= RAM_SIZE \/ pc + 1 >= RAM_SIZE)) =>
        /\ outcome' = PanicIndex
        /\ last'.op = -1
        /\ UNCHANGED emuVars ]_vars

(* after 1FFF: the first byte of the word is the last byte of memory *)
C9_Witness ==
  /\ last.call = "tick" /\ last.op = -1
  /\ outcome = PanicIndex
  /\ pc = RAM_SIZE - 1

(* C10: two consecutive executions of the same Dxyn with the same         *)
(* reg[x], reg[y], index_register and sprite bytes leave the display as   *)
(* it was before the first; if the targeted cells were all unlit before   *)
(* the first, the first leaves reg[0xF] = 0 and the second reg[0xF] = 1   *)
(* when the sprite has a set bit.                                         *)
SameDraw(d1, d2) ==
  /\ d1.op = d2.op /\ d1.vx = d2.vx /\ d1.vy = d2.vy
  /\ d1.i_reg = d2.i_reg /\ d1.sprite = d2.sprite

Targets(d) ==
  { ((d.vx + c) % SCREEN_WIDTH) + SCREEN_WIDTH * ((d.vy + r) % SCREEN_HEIGHT) :
      <<r, c>> \in { rc \in (0..(Len(d.sprite) - 1)) \X (0..7) :
                       Bit(d.sprite[rc[1] + 1], 7 - rc[2]) = 1 } }

AllUnlit(d) == \A t \in Targets(d) : ~d.before[t]

C10_DrawTwice ==
  (Len(draws) = 2 /\ SameDraw(draws[1], draws[2])) =>
    /\ screen = draws[1].before
    /\ AllUnlit(draws[1]) =>
         /\ draws[1].vf = 0
         /\ Targets(draws[1]) # {} => (draws[2].vf = 1 /\ v_regs[15] = 1)

C10_Witness ==
  /\ Len(draws) = 2 /\ SameDraw(draws[1], draws[2])
  /\ AllUnlit(draws[1]) /\ Targets(draws[1]) # {}
  /\ \E c \in DOMAIN screen : draws[2].before[c]
  /\ screen = draws[1].before
  /\ draws[1].vf = 0 /\ v_regs[15] = 1

(* ---------------------------------------------------------------------- *)
RegY(op) == (op \div 16) % 16
Cells == 0..(SCREEN_WIDTH * SCREEN_HEIGHT - 1)
Cell(col, row) == col + SCREEN_WIDTH * row

(* the draw a DXYN word performs from the current state *)
DrawAt(op) ==
  [op |-> op, vx |-> v_regs[RegX(op)], vy |-> v_regs[RegY(op)],
   i_reg |-> i_reg, sprite |-> Sprite(Emu, op % 16), before |-> screen]

DrawStep == TickStep /\ IsDraw(last'.op) /\ outcome' = OK

(* C11: a tick that executes Dxyn toggles, for every set bit of the       *)
(* sprite (row r, column c, bit 7 = column 0), exactly the cell           *)
(* ((reg[x] + c) mod 64) + 64 * ((reg[y] + r) mod 32), and leaves every   *)
(* other display cell as it was; a sprite at column 63 spills into        *)
(* columns 0..6 of the same row, one past row 31 into row 0.              *)
C11_DrawWraps ==
  [][ DrawStep =>
        \E T \in {Targets(DrawAt(last'.op))} :
          \A c \in Cells : screen'[c] = (screen[c] # (c \in T)) ]_vars

(* glyph 0 (F0 90 90 90 F0) drawn at column 63, row 31 *)
C11_Witness ==
  /\ last.call = "tick" /\ last.op = 53269 /\ outcome = OK
  /\ v_regs[0] = 63 /\ v_regs[1] = 31 /\ i_reg = 0
  /\ \A c \in Cells :
        screen[c] <=> c \in { Cell(63, 31), Cell(0, 31), Cell(1, 31), Cell(2, 31),
                              Cell(63, 0), Cell(2, 0), Cell(63, 1), Cell(2, 1),
                              Cell(63, 2), Cell(2, 2),
                              Cell(63, 3), Cell(0, 3), Cell(1, 3), Cell(2, 3) }

(* ---------------------------------------------------------------------- *)
OkTick == TickStep /\ outcome' = OK
Arm(name) == decode(last'.op) = name
Carry(n) == IF n > 255 THEN 1 ELSE 0
OtherRegsKept(S) ==
  \A r \in 0..(NUM_REGS - 1) : r \notin S => v_regs'[r] = v_regs[r]

(* C12 as stated: for all x, y in 0..15, x = 0xF included, 8xy4 leaves    *)
(* reg[x] = (old reg[x] + old reg[y]) mod 256 and reg[0xF] = carry; 7xnn  *)
(* leaves reg[x] = (old reg[x] + nn) mod 256 and no other register        *)
(* touched.                                                               *)
C12_AddAllRegisters ==
  [][ OkTick =>
        \E x \in {RegX(last'.op)}, y \in {RegY(last'.op)} :
          /\ Arm("8XY4") =>
                /\ v_regs'[x] = (v_regs[x] + v_regs[y]) % U8
                /\ v_regs'[15] = Carry(v_regs[x] + v_regs[y])
          /\ Arm("7XNN") =>
                v_regs' = [v_regs EXCEPT ![x] = (v_regs[x] + (last'.op % U8)) % U8]
    ]_vars

(* C12, amended: 8xy4 leaves reg[0xF] = 1 if old reg[x] + old reg[y] > 255 *)
(* else 0 for all x, y in 0..15; it leaves reg[x] = (old reg[x] + old      *)
(* reg[y]) mod 256 when x # 0xF (when x = 0xF the flag is what reg[0xF]    *)
(* holds), and no other register changes; 7xnn leaves reg[x] = (old reg[x] *)
(* + nn) mod 256 and touches no other register, reg[0xF] included.         *)
C12_AddWraps ==
  [][ OkTick =>
        \E x \in {RegX(last'.op)}, y \in {RegY(last'.op)} :
          /\ Arm("8XY4") =>
                /\ v_regs'[15] = Carry(v_regs[x] + v_regs[y])
                /\ x # 15 => v_regs'[x] = (v_regs[x] + v_regs[y]) % U8
                /\ OtherRegsKept({x, 15})
          /\ Arm("7XNN") =>
                v_regs' = [v_regs EXCEPT ![x] = (v_regs[x] + (last'.op % U8)) % U8]
    ]_vars

(* 87F4 with V7 = 128, VF = 255: sum 383 wraps to 127, carry 1 *)
C12_Witness ==
  /\ last.call = "tick" /\ last.op = 34804 /\ outcome = OK
  /\ v_regs[7] = 127 /\ v_regs[15] = 1

(* ---------------------------------------------------------------------- *)
NoBorrow(a, b) == IF a < b THEN 0 ELSE 1

(* C13 as stated: for all x, y in 0..15, x = 0xF included, 8xy5 leaves    *)
(* reg[x] = (old reg[x] - old reg[y]) mod 256 with reg[0xF] = 0 if old    *)
(* reg[x] < old reg[y] else 1, and 8xy7 leaves reg[x] = (old reg[y] - old *)
(* reg[x]) mod 256 with reg[0xF] = 0 if old reg[y] < old reg[x] else 1.   *)
C13_SubAllRegisters ==
  [][ OkTick =>
        \E x \in {RegX(last'.op)}, y \in {RegY(last'.op)} :
          /\ Arm("8XY5") =>
                /\ v_regs'[x] = (v_regs[x] - v_regs[y]) % U8
                /\ v_regs'[15] = NoBorrow(v_regs[x], v_regs[y])
          /\ Arm("8XY7") =>
                /\ v_regs'[x] = (v_regs[y] - v_regs[x]) % U8
                /\ v_regs'[15] = NoBorrow(v_regs[y], v_regs[x])
    ]_vars

(* C13, amended: for all x, y in 0..15, 8xy5 leaves reg[0xF] = 0 if old   *)
(* reg[x] < old reg[y] else 1 and 8xy7 leaves reg[0xF] = 0 if old reg[y]  *)
(* < old reg[x] else 1 (equal operands give flag 1); when x # 0xF, reg[x] *)
(* is (old reg[x] - old reg[y]) mod 256, respectively (old reg[y] - old   *)
(* reg[x]) mod 256 (when x = 0xF the flag is what reg[0xF] holds); no     *)
(* other register changes.                                                *)
C13_SubInvertedBorrow ==
  [][ OkTick =>
        \E x \in {RegX(last'.op)}, y \in {RegY(last'.op)} :
          /\ Arm("8XY5") =>
                /\ v_regs'[15] = NoBorrow(v_regs[x], v_regs[y])
                /\ x # 15 => v_regs'[x] = (v_regs[x] - v_regs[y]) % U8
                /\ OtherRegsKept({x, 15})
          /\ Arm("8XY7") =>
                /\ v_regs'[15] = NoBorrow(v_regs[y], v_regs[x])
                /\ x # 15 => v_regs'[x] = (v_regs[y] - v_regs[x]) % U8
                /\ OtherRegsKept({x, 15})
    ]_vars

(* 87F5 with V7 = 1, VF = 255: 1 - 255 wraps to 2, borrow, flag 0 *)
C13_Witness ==
  /\ last.call = "tick" /\ last.op = 34805 /\ outcome = OK
  /\ v_regs[7] = 2 /\ v_regs[15] = 0

(* ---------------------------------------------------------------------- *)
(* C14 as stated: for all x in 0..15, 8xy6 sets reg[0xF] to bit 0 of old  *)
(* reg[x] and reg[x] to old reg[x] div 2; 8xyE sets reg[0xF] to bit 7 of  *)
(* old reg[x] and reg[x] to (old reg[x] * 2) mod 256; reg[y] is not       *)
(* written.                                                               *)
C14_ShiftAllRegisters ==
  [][ OkTick =>
        \E x \in {RegX(last'.op)}, y \in {RegY(last'.op)} :
          /\ Arm("8XY6") =>
                /\ v_regs'[15] = v_regs[x] % 2
                /\ v_regs'[x] = v_regs[x] \div 2
                /\ v_regs'[y] = v_regs[y]
          /\ Arm("8XYE") =>
                /\ v_regs'[15] = (v_regs[x] \div 128) % 2
                /\ v_regs'[x] = (v_regs[x] * 2) % U8
                /\ v_regs'[y] = v_regs[y]
    ]_vars

(* C14, amended: for all x in 0..15, 8xy6 sets reg[0xF] to bit 0 of old   *)
(* reg[x] and 8xyE sets reg[0xF] to bit 7 of old reg[x]; when x # 0xF,    *)
(* reg[x] becomes old reg[x] div 2, respectively (old reg[x] * 2) mod 256 *)
(* (when x = 0xF the flag is what reg[0xF] holds); the results do not     *)
(* depend on reg[y], and no register other than reg[x] and reg[0xF]       *)
(* changes, so reg[y] is kept unless y is x or 0xF.                       *)
C14_ShiftFlagCapture ==
  [][ OkTick =>
        \E x \in {RegX(last'.op)} :
          /\ Arm("8XY6") =>
                /\ v_regs'[15] = v_regs[x] % 2
                /\ x # 15 => v_regs'[x] = v_regs[x] \div 2
                /\ OtherRegsKept({x, 15})
          /\ Arm("8XYE") =>
                /\ v_regs'[15] = (v_regs[x] \div 128) % 2
                /\ x # 15 => v_regs'[x] = (v_regs[x] * 2) % U8
                /\ OtherRegsKept({x, 15})
    ]_vars

(* 87FE with V7 = 255, VF = 128: V7 becomes 254, flag 1 *)
C14_Witness ==
  /\ last.call = "tick" /\ last.op = 34814 /\ outcome = OK
  /\ v_regs[7] = 254 /\ v_regs[15] = 1

(* ---------------------------------------------------------------------- *)
(* C15: reset() from any reachable state yields a state equal in every    *)
(* field to new() (pc 0x200, memory zero except the glyph table, display  *)
(* unlit, registers, index register, stack, stack pointer, keys and both  *)
(* timers zero/false), and a second reset() changes nothing.              *)
C15_ResetEqualsNew ==
  [][ last'.call = "reset" =>
        /\ pc' = new.pc /\ ram' = new.ram /\ screen' = new.screen
        /\ v_regs' = new.v_regs /\ i_reg' = new.i_reg /\ sp' = new.sp
        /\ stack' = new.stack /\ keys' = new.keys
        /\ dt' = new.dt /\ st' = new.st
        /\ reset(Emu') = Emu' ]_vars

(* a reset() called with the program counter inside a loaded program *)
C15_Witness ==
  /\ last.call = "reset" /\ last.pc0 > START_ADDR
  /\ Emu = new

(* ---------------------------------------------------------------------- *)
(* C16: for every byte v in reg[x] and every index register i with i + 2  *)
(* inside memory, Fx33 stores memory[i] = v div 100, memory[i+1] = (v div *)
(* 10) mod 10, memory[i+2] = v mod 10, and changes no other memory cell,  *)
(* no register and not the index register.                                *)
C16_Bcd ==
  [][ (TickStep /\ Arm("FX33") /\ i_reg + 2 < RAM_SIZE) =>
        \E v \in {v_regs[RegX(last'.op)]} :
          /\ outcome' = OK
          /\ ram' = [ram EXCEPT ![i_reg] = v \div 100,
                                ![i_reg + 1] = (v \div 10) % 10,
                                ![i_reg + 2] = v % 10]
          /\ UNCHANGED <<v_regs, i_reg>> ]_vars

(* 234 decomposed into the last three bytes of memory *)
C16_Witness ==
  /\ last.call = "tick" /\ last.op = 61491 /\ outcome = OK
  /\ v_regs[0] = 234 /\ i_reg = RAM_SIZE - 3
  /\ ram[RAM_SIZE - 3] = 2 /\ ram[RAM_SIZE - 2] = 3 /\ ram[RAM_SIZE - 1] = 4

(* ---------------------------------------------------------------------- *)
(* C17: in every state reachable from new() by load, tick, tick_timers,   *)
(* keypress and reset calls, stack_pointer is between 0 and 16 inclusive  *)
(* and equals the number of calls (2nnn) executed minus the number of     *)
(* returns (00EE) executed since the last new()/reset().                  *)
C17_StackPointerInvariant ==
  /\ sp \in 0..STACK_SIZE
  /\ sp = Len(callsites)

(* ---------------------------------------------------------------------- *)
(* the range a memory-indexed instruction accesses reaches past memory *)
ReachesPastMemory(op) ==
  \/ decode(op) = "DXYN" /\ op % 16 > 0 /\ i_reg + (op % 16) - 1 >= RAM_SIZE
  \/ decode(op) = "FX33" /\ i_reg + 2 >= RAM_SIZE
  \/ decode(op) \in {"FX55", "FX65"} /\ i_reg + RegX(op) >= RAM_SIZE

(* C18: a tick executing Dxyn, Fx33, Fx55 or Fx65 whose accessed range    *)
(* reaches an address >= 4096 fails, and leaves memory, registers and     *)
(* display as they were before the tick.                                  *)
C18_OutOfBoundsLeavesState ==
  [][ (TickStep /\ ReachesPastMemory(last'.op)) =>
        /\ outcome' \in Panics
        /\ UNCHANGED <<ram, v_regs, screen>> ]_vars

(* ---------------------------------------------------------------------- *)
(* C19: a tick that executes any instruction other than 00E0 or Dxyn      *)
(* leaves every display cell unchanged; tick_timers() and keypress()      *)
(* never change the display; 00E0 leaves all 64*32 cells unlit and        *)
(* changes nothing else except the program counter.                       *)
C19_DisplayFrame ==
  [][ /\ (TickStep /\ ~Arm("00E0") /\ ~Arm("DXYN")) => screen' = screen
      /\ last'.call \in {"tick_timers", "keypress"} => screen' = screen
      /\ (TickStep /\ Arm("00E0")) =>
            /\ outcome' = OK
            /\ \A c \in Cells : ~screen'[c]
            /\ pc' = pc + 2
            /\ UNCHANGED <<ram, v_regs, i_reg, sp, stack, keys, dt, st>>
    ]_vars

(* the display cleared after glyph 1 was drawn at (7, 7) *)
C19_Witness ==
  /\ last.call = "tick" /\ last.op = 224 /\ last.pc0 = START_ADDR + 6
  /\ v_regs[0] = 7 /\ i_reg = 5 /\ v_regs[15] = 0
  /\ \A c \in Cells : ~screen[c]

(* ---------------------------------------------------------------------- *)
(* the set bits of a sprite as (row, column) pairs *)
SetBits(d) ==
  { rc \in (0..(Len(d.sprite) - 1)) \X (0..7) :
      Bit(d.sprite[rc[1] + 1], 7 - rc[2]) = 1 }

(* C20: for every Dxyn (n in 0..15), reg[0xF] after the instruction is 1  *)
(* if and only if at least one cell targeted by a set sprite bit was lit  *)
(* in the display as it was before the instruction, else 0; no display    *)
(* cell is targeted by two set bits of one draw; with n = 0 the display   *)
(* is unchanged and reg[0xF] = 0.                                         *)
C20_DrawCollision ==
  [][ DrawStep =>
        \E d \in {DrawAt(last'.op)} :
          \E T \in {Targets(d)} :
            /\ v_regs'[15] = IF \E t \in T : screen[t] THEN 1 ELSE 0
            /\ Cardinality(T) = Cardinality(SetBits(d))
            /\ last'.op % 16 = 0 => (screen' = screen /\ v_regs'[15] = 0)
    ]_vars

(* the second draw of glyph 0 at column 61, one column right of the first *)
C20_Witness ==
  /\ last.call = "tick" /\ last.op = 53269 /\ last.pc0 = START_ADDR + 10
  /\ outcome = OK /\ v_regs[0] = 61 /\ v_regs[15] = 1
  /\ Len(draws) = 1
  /\ \E t \in Targets(draws[1]) : draws[1].before[t]
  /\ \E t \in Targets(draws[1]) : ~draws[1].before[t]

====
